---- MODULE Spec2Model ----
(***************************************************************************)
(* Model of batch_scanner.py: the code extraction and link generation      *)
(* pipeline (extract_all_codes, generate_collecthw_url), the spreadsheet   *)
(* save (save_batch_to_sheet) and the Streamlit page script that holds the *)
(* batch in st.session_state['found_cars'].                                *)
(*                                                                         *)
(* A Python str is modelled as a sequence of one-character strings.        *)
(***************************************************************************)
EXTENDS Integers, Sequences, FiniteSets, TLC

VARIABLES
    found_cars,     \* st.session_state['found_cars']: sequence of [code, link]
    uploaded_file,  \* the file_uploader widget's value
    scan_button,    \* the last script run rendered the Scan Stack button
    save_button,    \* the last script run rendered the Save All button
    message,        \* what the last script run reported to the user
    ocr_call,       \* what the OCR backend did in the last script run
    sheet_call,     \* what the spreadsheet collaborator was asked in the last run
    text,           \* input of the extraction check: an OCR text
    codes,          \* its result
    codeA, codeB,   \* inputs of the link check: two codes
    urlA, urlB      \* their links

sessionVars == <<found_cars, uploaded_file, scan_button, save_button, message,
                 ocr_call, sheet_call>>
extractVars == <<text, codes>>
linkVars == <<codeA, codeB, urlA, urlB>>
vars == <<sessionVars, extractVars, linkVars>>

None == "None"
\* the value of a result variable before its function has run
NotRun == <<"not run">>

----------------------------------------------------------------------------
(* Characters and Python's str operations                                   *)

Range(s) == {s[i] : i \in 1..Len(s)}

\* The characters of the model: ASCII letters and digits, the hyphen and
\* white space, each with its code point, and one character outside ASCII.
Digits == <<"0", "1", "2", "3", "4", "5", "6", "7", "8", "9">>
Upper == <<"A", "B", "C", "D", "E", "F", "G", "H", "I", "J", "K", "L", "M",
           "N", "O", "P", "Q", "R", "S", "T", "U", "V", "W", "X", "Y", "Z">>
Lower == <<"a", "b", "c", "d", "e", "f", "g", "h", "i", "j", "k", "l", "m",
           "n", "o", "p", "q", "r", "s", "t", "u", "v", "w", "x", "y", "z">>

\* A lone surrogate code point: a str character that UTF-8 cannot encode.
Surrogate == "U+D800"

IndexOf(c, table) == CHOOSE i \in 1..Len(table) : table[i] = c

AsciiChars ==
    Range(Digits) \cup Range(Upper) \cup Range(Lower)
        \cup {"\t", "\n", " ", "-", ":", "/", ".", "=", "+"}

\* ord(c)
CodePoint == [c \in AsciiChars \cup {Surrogate} |->
                 IF c = "\t" THEN 9
                 ELSE IF c = "\n" THEN 10
                 ELSE IF c = " " THEN 32
                 ELSE IF c = "+" THEN 43
                 ELSE IF c = "-" THEN 45
                 ELSE IF c = "." THEN 46
                 ELSE IF c = "/" THEN 47
                 ELSE IF c = ":" THEN 58
                 ELSE IF c = "=" THEN 61
                 ELSE IF c \in Range(Digits) THEN 47 + IndexOf(c, Digits)
                 ELSE IF c \in Range(Upper) THEN 64 + IndexOf(c, Upper)
                 ELSE IF c \in Range(Lower) THEN 96 + IndexOf(c, Lower)
                 ELSE 55296]

Whitespace == {" ", "\n", "\t"}
\* the character class [A-Z0-9]
UpperAlnum == Range(Upper) \cup Range(Digits)

\* Python's a < b on str: lexicographic by code point, a proper prefix first.
StrLess(a, b) ==
    \/ \E k \in 1..Len(a) :
          /\ k <= Len(b)
          /\ \A j \in 1..(k - 1) : a[j] = b[j]
          /\ CodePoint[a[k]] < CodePoint[b[k]]
    \/ /\ Len(a) < Len(b)
       /\ \A j \in 1..Len(a) : a[j] = b[j]

\* sorted(S) for a set S of str
RECURSIVE SortedSeq(_)
SortedSeq(S) ==
    IF S = {} THEN <<>>
    ELSE LET m == CHOOSE x \in S : \A y \in S \ {x} : StrLess(x, y)
         IN  <<m>> \o SortedSeq(S \ {m})

\* sorted(s) for a list s of str, duplicates kept
RECURSIVE SortedList(_)
SortedList(s) ==
    IF s = <<>> THEN <<>>
    ELSE LET i == CHOOSE k \in 1..Len(s) :
                      \A j \in 1..Len(s) : ~StrLess(s[j], s[k])
         IN  <<s[i]>> \o SortedList(SubSeq(s, 1, i - 1) \o SubSeq(s, i + 1, Len(s)))

\* s.split("-")[0]
SplitFirst(s) ==
    IF "-" \in Range(s)
    THEN SubSeq(s, 1, (CHOOSE i \in 1..Len(s) :
                           s[i] = "-" /\ \A j \in 1..(i - 1) : s[j] # "-") - 1)
    ELSE s

\* s.strip()
Strip(s) ==
    IF \A i \in 1..Len(s) : s[i] \in Whitespace THEN <<>>
    ELSE LET first == CHOOSE i \in 1..Len(s) :
                          s[i] \notin Whitespace /\ \A j \in 1..(i - 1) : s[j] \in Whitespace
             last == CHOOSE i \in 1..Len(s) :
                          s[i] \notin Whitespace /\ \A j \in (i + 1)..Len(s) : s[j] \in Whitespace
         IN  SubSeq(s, first, last)

\* s.encode("utf-8") succeeds
Utf8Encodable(s) == \A i \in 1..Len(s) : s[i] \in AsciiChars

\* s.encode("utf-8") for an ASCII str: one byte per character
Utf8Encode(s) == [i \in 1..Len(s) |-> CodePoint[s[i]]]

Base64Alphabet == Upper \o Lower \o Digits \o <<"+", "/">>

B64Char(sextet) == Base64Alphabet[sextet + 1]

\* base64.b64encode(bytes).decode("utf-8")
RECURSIVE B64Encode(_)
B64Encode(bytes) ==
    IF Len(bytes) = 0 THEN <<>>
    ELSE IF Len(bytes) = 1 THEN
        <<B64Char(bytes[1] \div 4), B64Char((bytes[1] % 4) * 16), "=", "=">>
    ELSE IF Len(bytes) = 2 THEN
        <<B64Char(bytes[1] \div 4),
          B64Char((bytes[1] % 4) * 16 + bytes[2] \div 16),
          B64Char((bytes[2] % 16) * 4), "=">>
    ELSE
        <<B64Char(bytes[1] \div 4),
          B64Char((bytes[1] % 4) * 16 + bytes[2] \div 16),
          B64Char((bytes[2] % 16) * 4 + bytes[3] \div 64),
          B64Char(bytes[3] % 64)>> \o B64Encode(SubSeq(bytes, 4, Len(bytes)))

----------------------------------------------------------------------------
(* Core logic: generate_collecthw_url and extract_all_codes                 *)

UrlTemplate ==
    <<"h", "t", "t", "p", "s", ":", "/", "/", "c", "o", "l", "l", "e", "c", "t", "h",
      "w", ".", "c", "o", "m", "/", "h", "w", "/", "s", "e", "a", "r", "c", "h", "/">>

ErrorGeneratingLink ==
    <<"E", "r", "r", "o", "r", " ", "g", "e", "n", "e", "r", "a", "t", "i", "n", "g",
      " ", "l", "i", "n", "k">>

\* a slip: the whole code is encoded, the split on "-" forgotten
generate_collecthw_url_nosplit(code) ==
    IF Utf8Encodable(Strip(code))
    THEN UrlTemplate \o B64Encode(Utf8Encode(Strip(code)))
    ELSE ErrorGeneratingLink

\* a slip: b64encode is handed the str, not its bytes; the TypeError is
\* caught by the bare except and every code gets the sentinel
generate_collecthw_url_sentinel(code) == ErrorGeneratingLink

generate_collecthw_url(code) ==
    LET clean_code == Strip(SplitFirst(code))
    IN  IF Utf8Encodable(clean_code)
        THEN UrlTemplate \o B64Encode(Utf8Encode(clean_code))
        ELSE ErrorGeneratingLink

\* the pattern [A-Z0-9]{5}-[A-Z0-9]{4}
PrefixLen == 5
SuffixLen == 4
PatternLen == PrefixLen + 1 + SuffixLen

\* the pattern matches the text at position pos
MatchAt(txt, pos) ==
    /\ pos >= 1
    /\ pos + PatternLen - 1 <= Len(txt)
    /\ \A k \in 0..(PrefixLen - 1) : txt[pos + k] \in UpperAlnum
    /\ txt[pos + PrefixLen] = "-"
    /\ \A k \in 1..SuffixLen : txt[pos + PrefixLen + k] \in UpperAlnum

\* the first match from position pos on
RECURSIVE FirstMatchFrom(_, _)
FirstMatchFrom(txt, pos) ==
    IF pos + PatternLen - 1 > Len(txt) THEN <<>>
    ELSE IF MatchAt(txt, pos) THEN <<SubSeq(txt, pos, pos + PatternLen - 1)>>
    ELSE FirstMatchFrom(txt, pos + 1)

\* re.findall from position pos on: leftmost match first, the scan resumes
\* after the end of each match
RECURSIVE FindAllFrom(_, _)
FindAllFrom(txt, pos) ==
    IF pos + PatternLen - 1 > Len(txt) THEN <<>>
    ELSE IF MatchAt(txt, pos)
         THEN <<SubSeq(txt, pos, pos + PatternLen - 1)>>
                  \o FindAllFrom(txt, pos + PatternLen)
         ELSE FindAllFrom(txt, pos + 1)

\* a slip: re.search in place of re.findall
FindFirstOnly(txt) == FirstMatchFrom(txt, 1)

\* re.findall(pattern, text)
FindAll(txt) == FindAllFrom(txt, 1)

\* a slip: sorted(matches), the set() forgotten
UniqueMatchesKeepDuplicates(matches) == SortedList(matches)

\* sorted(list(set(matches)))
UniqueMatches(matches) == SortedSeq(Range(matches))

\* What pytesseract.image_to_string does with the prepared image: it returns
\* the text it read, or raises.
OcrText(txt) == [raised |-> FALSE, text |-> txt]
OcrRaises == [raised |-> TRUE]

Raise == [raised |-> TRUE]
Return(value) == [raised |-> FALSE, value |-> value]

\* a slip: the OCR failure is caught and an empty text scanned instead
extract_all_codes_swallow(ocr) ==
    Return(UniqueMatches(FindAll(IF ocr.raised THEN <<>> ELSE ocr.text)))

\* extract_all_codes(image), the image given by what the OCR backend does
\* with it. Nothing in the function catches the backend's exception.
extract_all_codes(ocr) ==
    IF ocr.raised THEN Raise
    ELSE Return(UniqueMatches(FindAll(ocr.text)))

----------------------------------------------------------------------------
(* Google Sheets: get_sheet_connection and save_batch_to_sheet              *)

HyperlinkOpen == <<"=", "H", "Y", "P", "E", "R", "L", "I", "N", "K", "(", "\"">>
HyperlinkClose ==
    <<"\"", ",", " ", "\"", "I", "D", " ", "T", "h", "i", "s", " ", "C", "a", "r", "\"", ")">>
Unverified == <<"U", "n", "v", "e", "r", "i", "f", "i", "e", "d">>

\* get_sheet_connection(): the worksheet, or None when anything raised
get_sheet_connection(conn_ok) == IF conn_ok THEN "sheet1" ELSE None

\* a slip: the loop stops one record short
RowsToAddDropLast(car_list) ==
    [i \in 1..(Len(car_list) - 1) |->
        <<car_list[i].code,
          HyperlinkOpen \o car_list[i].link \o HyperlinkClose,
          Unverified>>]

\* rows_to_add as the loop over car_list builds it
RowsToAdd(car_list) ==
    [i \in 1..Len(car_list) |->
        <<car_list[i].code,
          HyperlinkOpen \o car_list[i].link \o HyperlinkClose,
          Unverified>>]

NotCalled == [outcome |-> "not called", rows |-> <<>>]

\* save_batch_to_sheet(car_list): (success, msg) and what the sheet was asked.
\* conn_ok: get_sheet_connection obtains the sheet; append_ok: append_rows
\* returns rather than raises.
save_batch_to_sheet(car_list, conn_ok, append_ok) ==
    LET sheet == get_sheet_connection(conn_ok)
        rows_to_add == RowsToAdd(car_list)
    IN  IF sheet = None
        THEN [success |-> FALSE, msg |-> "connect error",
              call |-> [outcome |-> "no connection", rows |-> <<>>]]
        ELSE IF append_ok
        THEN [success |-> TRUE, msg |-> "added",
              call |-> [outcome |-> "appended", rows |-> rows_to_add]]
        ELSE [success |-> FALSE, msg |-> "cloud error",
              call |-> [outcome |-> "raised", rows |-> rows_to_add]]

----------------------------------------------------------------------------
(* The page script: one run from top to bottom per user interaction         *)

\* The uploader's value: nothing, a file that is no image, or an image,
\* given by the text the OCR backend reads from it.
NoFile == [present |-> FALSE, readable |-> FALSE, text |-> <<>>]
CorruptFile == [present |-> TRUE, readable |-> FALSE, text |-> <<>>]
ImageFile(txt) == [present |-> TRUE, readable |-> TRUE, text |-> txt]

\* results: one {"code", "link"} dictionary per code, in the order of codes
ScanResults(cs) ==
    [i \in 1..Len(cs) |-> [code |-> cs[i], link |-> generate_collecthw_url(cs[i])]]

\* a slip: the new results are appended to the batch
ScanStackHandlerMerge(cars, ocr) ==
    LET r == extract_all_codes(ocr)
    IN  IF r.raised
        THEN [aborted |-> TRUE, cars |-> cars, message |-> "exception"]
        ELSE IF r.value # <<>>
        THEN [aborted |-> FALSE, cars |-> cars \o ScanResults(r.value),
              message |-> "found codes"]
        ELSE [aborted |-> FALSE, cars |-> cars, message |-> "no codes found"]

\* a slip: the results are stored whether or not any code was found
ScanStackHandlerAlwaysStore(cars, ocr) ==
    LET r == extract_all_codes(ocr)
    IN  IF r.raised
        THEN [aborted |-> TRUE, cars |-> cars, message |-> "exception"]
        ELSE [aborted |-> FALSE, cars |-> ScanResults(r.value),
              message |-> IF r.value # <<>> THEN "found codes" ELSE "no codes found"]

\* The body of `if st.button("Scan Stack")`. An exception of extract_all_codes
\* is caught nowhere: it ends the script run and Streamlit shows it.
ScanStackHandler(cars, ocr) ==
    LET r == extract_all_codes(ocr)
    IN  IF r.raised
        THEN [aborted |-> TRUE, cars |-> cars, message |-> "exception"]
        ELSE IF r.value # <<>>
        THEN [aborted |-> FALSE, cars |-> ScanResults(r.value),
              message |-> "found codes"]
        ELSE [aborted |-> FALSE, cars |-> cars, message |-> "no codes found"]

\* `if uploaded_file:` and what it encloses. Image.open raises on a file that
\* is no image, which ends the script run before any button is rendered.
UploadSection(file, cars, scan_clicked, ocr) ==
    IF ~file.present
    THEN [aborted |-> FALSE, cars |-> cars, message |-> "none",
          ocr_call |-> "not called", scan_button |-> FALSE]
    ELSE IF ~file.readable
    THEN [aborted |-> TRUE, cars |-> cars, message |-> "exception",
          ocr_call |-> "not called", scan_button |-> FALSE]
    ELSE IF scan_clicked
    THEN [scan_button |-> TRUE,
          ocr_call |-> IF ocr.raised THEN "raised" ELSE "returned"]
             @@ ScanStackHandler(cars, ocr)
    ELSE [aborted |-> FALSE, cars |-> cars, message |-> "none",
          ocr_call |-> "not called", scan_button |-> TRUE]

\* a slip: the batch is cleared whatever the save returned
SaveAllHandlerAlwaysClear(cars, conn_ok, append_ok) ==
    LET r == save_batch_to_sheet(cars, conn_ok, append_ok)
    IN  [cars |-> <<>>, message |-> r.msg, sheet_call |-> r.call]

\* The body of `if st.button("Save All to Google Sheet")`
SaveAllHandler(cars, conn_ok, append_ok) ==
    LET r == save_batch_to_sheet(cars, conn_ok, append_ok)
    IN  IF r.success
        THEN [cars |-> <<>>, message |-> r.msg, sheet_call |-> r.call]
        ELSE [cars |-> cars, message |-> r.msg, sheet_call |-> r.call]

\* a slip: the section is not guarded by the batch being non-empty
PreviewSectionUnguarded(cars, save_clicked, conn_ok, append_ok) ==
    IF save_clicked
    THEN [save_button |-> TRUE] @@ SaveAllHandler(cars, conn_ok, append_ok)
    ELSE [cars |-> cars, message |-> "none", sheet_call |-> NotCalled,
          save_button |-> TRUE]

\* `if st.session_state['found_cars']:` and what it encloses. A click on a
\* Save All button that this run does not render has no effect.
PreviewSection(cars, save_clicked, conn_ok, append_ok) ==
    IF cars = <<>>
    THEN [cars |-> cars, message |-> IF save_clicked THEN "save not rendered" ELSE "none",
          sheet_call |-> NotCalled, save_button |-> FALSE]
    ELSE IF save_clicked
    THEN [save_button |-> TRUE] @@ SaveAllHandler(cars, conn_ok, append_ok)
    ELSE [cars |-> cars, message |-> "none", sheet_call |-> NotCalled,
          save_button |-> TRUE]

\* One run of the script with the widget values and collaborators as given.
ScriptRun(file, scan_clicked, save_clicked, ocr, conn_ok, append_ok) ==
    LET up == UploadSection(file, found_cars, scan_clicked, ocr)
        pv == PreviewSection(up.cars, save_clicked, conn_ok, append_ok)
    IN  /\ uploaded_file' = file
        /\ scan_button' = up.scan_button
        /\ ocr_call' = up.ocr_call
        /\ IF up.aborted
           THEN /\ found_cars' = up.cars
                /\ save_button' = FALSE
                /\ sheet_call' = NotCalled
                /\ message' = up.message
           ELSE /\ found_cars' = pv.cars
                /\ save_button' = pv.save_button
                /\ sheet_call' = pv.sheet_call
                /\ message' = IF pv.message # "none" THEN pv.message ELSE up.message
        /\ UNCHANGED <<extractVars, linkVars>>

----------------------------------------------------------------------------
(* Inputs                                                                   *)

\* Pieces of OCR text: two codes, a code's prefix with its hyphen, a bare
\* suffix, line noise and a lower-case suffix.
CodeFragments ==
    { <<"J", "B", "C", "1", "9", "-", "N", "7", "C", "5">>,
      <<"H", "K", "J", "8", "8", "-", "X", "2", "Z", "1">>,
      <<"J", "B", "C", "1", "9", "-">>,
      <<"X", "2", "Z", "1">> }
NoiseFragments ==
    { <<" ", "o", "t", "h", "e", "r", "\n">>,
      <<"n", "7", "c", "5">> }

\* the longest OCR text of the extraction check, in fragments
MaxFrags == 4
\* the longest OCR text of an uploaded image, in fragments
MaxImgFrags == 2

RECURSIVE TextsOf(_, _)
TextsOf(frags, n) ==
    IF n = 0 THEN {<<>>}
    ELSE LET shorter == TextsOf(frags, n - 1)
         IN  shorter \cup {t \o f : t \in shorter, f \in frags}

Texts == TextsOf(CodeFragments \cup NoiseFragments, MaxFrags)
Files == {CorruptFile} \cup {ImageFile(t) : t \in TextsOf(CodeFragments, MaxImgFrags)}

\* Codes of the 5-hyphen-4 shape for the link check
LinkPrefixChars == {"A", "B", "9"}
LinkSuffixes == { <<"N", "7", "C", "5">>, <<"X", "2", "Z", "1">> }
ScenarioCode == <<"J", "B", "C", "1", "9", "-", "N", "7", "C", "5">>
ScenarioVariant == <<"J", "B", "C", "1", "9", "-", "X", "2", "Z", "1">>
LinkCodes ==
    {ScenarioCode, ScenarioVariant} \cup
    { <<c1, c2, c3, c4, c5, "-">> \o sfx :
        c1 \in LinkPrefixChars, c2 \in LinkPrefixChars, c3 \in LinkPrefixChars,
        c4 \in LinkPrefixChars, c5 \in LinkPrefixChars, sfx \in LinkSuffixes }

----------------------------------------------------------------------------
(* The session                                                              *)

\* The state after the first script run of a session: found_cars is
\* initialised to [], nothing is uploaded, no section is rendered.
SessionInit ==
    /\ found_cars = <<>>
    /\ uploaded_file = NoFile
    /\ scan_button = FALSE
    /\ save_button = FALSE
    /\ message = "none"
    /\ ocr_call = "not called"
    /\ sheet_call = NotCalled

ExtractIdle == text = <<>> /\ codes = NotRun
LinkIdle == codeA = <<>> /\ codeB = <<>> /\ urlA = NotRun /\ urlB = NotRun

Init == SessionInit /\ ExtractIdle /\ LinkIdle

\* The user picks a file in the uploader.
Upload(f) ==
    /\ f \in Files
    /\ ScriptRun(f, FALSE, FALSE, OcrRaises, FALSE, FALSE)

\* The user removes the uploaded file.
RemoveUpload ==
    /\ uploaded_file.present
    /\ ScriptRun(NoFile, FALSE, FALSE, OcrRaises, FALSE, FALSE)

\* The page is rerun with no widget changed.
Rerun ==
    /\ uploaded_file \in Files \cup {NoFile}
    /\ ScriptRun(uploaded_file, FALSE, FALSE, OcrRaises, FALSE, FALSE)

\* The user clicks Scan Stack; the OCR backend reads the image or fails.
ClickScan(ocr_ok) ==
    /\ scan_button
    /\ ScriptRun(uploaded_file, TRUE, FALSE,
                 IF ocr_ok THEN OcrText(uploaded_file.text) ELSE OcrRaises,
                 FALSE, FALSE)

\* The user clicks Save All; the sheet is reached or not, the append
\* returns or raises.
ClickSave(conn_ok, append_ok) ==
    /\ save_button
    /\ ScriptRun(uploaded_file, FALSE, TRUE, OcrRaises, conn_ok, append_ok)

Next ==
    \/ \E f \in Files : Upload(f)
    \/ RemoveUpload
    \/ Rerun
    \/ \E ocr_ok \in BOOLEAN : ClickScan(ocr_ok)
    \/ \E conn_ok \in BOOLEAN, append_ok \in BOOLEAN : ClickSave(conn_ok, append_ok)

Spec == Init /\ [][Next]_vars

----------------------------------------------------------------------------
(* extract_all_codes on its own, over every text of Texts                   *)

ExtractInit == SessionInit /\ LinkIdle /\ text \in Texts /\ codes = NotRun

Extract ==
    /\ codes = NotRun
    /\ codes' = extract_all_codes(OcrText(text)).value
    /\ UNCHANGED <<text, sessionVars, linkVars>>

ExtractNext == Extract

ExtractSpec == ExtractInit /\ [][ExtractNext]_vars

----------------------------------------------------------------------------
(* generate_collecthw_url on its own, over every pair of LinkCodes          *)

LinkInit ==
    /\ SessionInit /\ ExtractIdle
    /\ codeA \in LinkCodes /\ codeB \in LinkCodes
    /\ urlA = NotRun /\ urlB = NotRun

GenerateLinks ==
    /\ urlA = NotRun
    /\ urlA' = generate_collecthw_url(codeA)
    /\ urlB' = generate_collecthw_url(codeB)
    /\ UNCHANGED <<codeA, codeB, sessionVars, extractVars>>

LinkNext == GenerateLinks

LinkSpec == LinkInit /\ [][LinkNext]_vars

----------------------------------------------------------------------------
(* Properties                                                               *)

\* a string of the shape 5 of [A-Z0-9], hyphen, 4 of [A-Z0-9]
IsCode(c) ==
    /\ Len(c) = 10
    /\ c[6] = "-"
    /\ \A i \in (1..10) \ {6} : c[i] \in UpperAlnum

\* the save ran in the step: the sheet was asked for, whatever came of it
SaveRan(call) == call.outcome # "not called"

\* C1: a Save All on a non-empty batch that reports success leaves the batch
\* empty; one that reports failure (no connection, or the append raised)
\* leaves the batch exactly as it was.
C1_SaveClearsOrPreserves ==
    [][SaveRan(sheet_call')
          => /\ found_cars # <<>>
             /\ message' \in {"added", "connect error", "cloud error"}
             /\ message' = "added" <=> sheet_call'.outcome = "appended"
             /\ message' = "added" => found_cars' = <<>>
             /\ message' # "added" => found_cars' = found_cars]_vars

\* a failed save has left a batch of two records in place
C1_Witness ==
    /\ message \in {"connect error", "cloud error"}
    /\ Len(found_cars) = 2

\* the codes a scan of the uploaded image extracts
UploadedCodes == extract_all_codes(OcrText(uploaded_file.text)).value

\* C2 as claimed: after every completed scan, whatever the extraction
\* returned, the batch is exactly the records of the codes of that scan.
C2_ScanAlwaysOverwrites ==
    [][ocr_call' = "returned" => found_cars' = ScanResults(UploadedCodes)]_vars

\* C2 as amended: after a completed scan that extracted at least one code the
\* batch is exactly the records of the codes of that scan, prior contents
\* gone; after a completed scan that extracted no code the batch is what it
\* was before the scan.
C2_ScanOverwritesWhenCodesFound ==
    [][ocr_call' = "returned"
          => IF UploadedCodes # <<>>
             THEN found_cars' = ScanResults(UploadedCodes)
             ELSE found_cars' = found_cars]_vars

\* a scan that found no code has left a non-empty batch in place
C2_Witness ==
    /\ ocr_call = "returned"
    /\ message = "no codes found"
    /\ found_cars # <<>>

\* C3: the batch goes from non-empty to empty only in a step in which a
\* Save All has reported success.
C3_OnlySuccessfulSaveEmpties ==
    [][(found_cars # <<>> /\ found_cars' = <<>>)
          => (message' = "added" /\ sheet_call'.outcome = "appended")]_vars

\* a successful save of two rows has emptied the batch
C3_Witness ==
    /\ message = "added"
    /\ found_cars = <<>>
    /\ Len(sheet_call.rows) = 2

\* C4: the result of extract_all_codes is strictly ascending: each code is
\* before its successor in code point order, so none occurs twice.
C4_StrictlyAscending ==
    codes # NotRun =>
        \A i \in 1..(Len(codes) - 1) :
            \E k \in 1..10 :
                /\ \A j \in 1..(k - 1) : codes[i][j] = codes[i + 1][j]
                /\ CodePoint[codes[i][k]] < CodePoint[codes[i + 1][k]]

\* three matches in the text, one of them a repeat, and the code found first
\* is not the first of the result
C4_Witness ==
    /\ codes # NotRun
    /\ Len(codes) = 2
    /\ \E p, q \in 1..(Len(text) - 9) :
          /\ p < q
          /\ SubSeq(text, p, p + 9) = codes[2]
          /\ SubSeq(text, q, q + 9) = codes[1]
    /\ \E p, q \in 1..(Len(text) - 9) :
          /\ p + 10 <= q
          /\ SubSeq(text, p, p + 9) = codes[2]
          /\ SubSeq(text, q, q + 9) = codes[2]

\* the positions of a text at which a string of the code shape starts
ShapePositions(txt) ==
    {p \in 1..(Len(txt) - 9) : IsCode(SubSeq(txt, p, p + 9))}

\* the starts a left-to-right non-overlapping scan selects: a position of
\* the shape is selected exactly when no selected start lies in the nine
\* positions before it
ScanStarts(txt) ==
    CHOOSE S \in SUBSET ShapePositions(txt) :
        \A p \in ShapePositions(txt) :
            p \in S <=> \A q \in S : q >= p \/ q + 10 <= p

\* C5: the set of codes returned is the set of the substrings a left-to-right
\* non-overlapping scan for the shape selects: all of them, nothing else, and
\* the empty sequence when there is none.
C5_AllMatchesAndOnlyMatches ==
    codes # NotRun =>
        /\ Range(codes) = {SubSeq(text, p, p + 9) : p \in ScanStarts(text)}
        /\ ShapePositions(text) = {} => codes = <<>>

\* two codes returned from a text in which a further occurrence of the shape
\* overlaps a selected match and is not returned
C5_Witness ==
    /\ codes # NotRun
    /\ Len(codes) = 2
    /\ \E p \in ShapePositions(text) : SubSeq(text, p, p + 9) \notin Range(codes)

ScenarioUrl ==
    <<"h", "t", "t", "p", "s", ":", "/", "/", "c", "o", "l", "l", "e", "c", "t", "h",
      "w", ".", "c", "o", "m", "/", "h", "w", "/", "s", "e", "a", "r", "c", "h", "/",
      "S", "k", "J", "D", "M", "T", "k", "=">>

\* C6: two codes of the shape get equal links exactly when their five
\* characters before the hyphen are equal.
C6_LinkInjectiveOnPrefix ==
    urlA # NotRun =>
        (urlA = urlB <=> SubSeq(codeA, 1, 5) = SubSeq(codeB, 1, 5))

\* JBC19-N7C5 and JBC19-X2Z1 both get the link of the prefix JBC19
C6_Witness ==
    /\ codeA = ScenarioCode
    /\ codeB = ScenarioVariant
    /\ urlA = ScenarioUrl
    /\ urlB = ScenarioUrl

\* C7: the rows handed to append_rows are, in batch order, one per record of
\* the batch as it was when Save All was clicked: the record's code, the
\* HYPERLINK formula around the record's link, and "Unverified"; building
\* them leaves the batch as it was.
C7_RowsMirrorBatch ==
    [][sheet_call'.outcome \in {"appended", "raised"}
          => /\ Len(sheet_call'.rows) = Len(found_cars)
             /\ \A i \in 1..Len(found_cars) :
                   sheet_call'.rows[i] =
                       <<found_cars[i].code,
                         HyperlinkOpen \o found_cars[i].link \o HyperlinkClose,
                         Unverified>>
             /\ sheet_call'.outcome = "raised" => found_cars' = found_cars]_vars

\* two rows were handed over and the append raised: the batch of two is there
C7_Witness ==
    /\ sheet_call.outcome = "raised"
    /\ Len(sheet_call.rows) = 2
    /\ Len(found_cars) = 2

\* C8: when the OCR backend fails in a scan the run reports the exception,
\* not the "no codes found" warning nor found codes, and the batch is as it
\* was before the scan.
C8_OcrFailureIsExplicit ==
    [][ocr_call' = "raised"
          => /\ message' = "exception"
             /\ found_cars' = found_cars]_vars

\* the OCR backend failed on a scan made over a non-empty batch
C8_Witness ==
    /\ ocr_call = "raised"
    /\ message = "exception"
    /\ found_cars # <<>>

\* C9: in every state the batch has no two records with the same code, every
\* code has the shape, and every link is the link of its record's code and
\* not the sentinel.
C9_BatchWellFormed ==
    /\ \A i, j \in 1..Len(found_cars) :
          i # j => found_cars[i].code # found_cars[j].code
    /\ \A i \in 1..Len(found_cars) :
          /\ IsCode(found_cars[i].code)
          /\ found_cars[i].link = generate_collecthw_url(found_cars[i].code)
          /\ found_cars[i].link # ErrorGeneratingLink

\* the batch holds one record from a scan of an image that shows the code twice
C9_Witness ==
    /\ message = "found codes"
    /\ Len(found_cars) = 1
    /\ Len(FindAll(uploaded_file.text)) = 2

\* C10: the sheet is asked for only in a step that starts with a non-empty
\* batch, and never in the step after a successful save.
C10_SaveOnlyOnNonEmptyBatch ==
    [][SaveRan(sheet_call')
          => /\ found_cars # <<>>
             /\ message # "added"]_vars

\* Save All was clicked on an empty batch and the sheet was not asked for
C10_Witness ==
    /\ message = "save not rendered"
    /\ found_cars = <<>>
    /\ sheet_call = NotCalled

====
